---- MODULE Spec2Model ----
(***************************************************************************)
(* A model of src/InvoiceRecong.py (class InvoiceRecognition): invoice     *)
(* type detection, the field extractors and the batch loop.                *)
(*                                                                         *)
(* A Python str is modelled as a sequence of characters.  Every character  *)
(* is a one-element TLA+ string: ASCII characters stand for themselves,    *)
(* a CJK character is written as its pinyin syllable ("fa" is U+53D1),     *)
(* "yen" is U+00A5, "fyen" is U+FFE5, "fcolon" is U+FF1A, "w1" is the      *)
(* full-width digit U+FF11, "lp"/"rp" are the full-width parentheses and   *)
(* NL is the line feed.  The regular expressions of the source are         *)
(* computed on these sequences by the scanning operators below.            *)
(***************************************************************************)
EXTENDS Integers, Sequences, FiniteSets, TLC

VARIABLES
    pc,             \* position of the running operation
    text,           \* the text handed to the extractors
    invoice_type,   \* result of detect_invoice_type
    invoice_info,   \* the record being filled
    companies,      \* extract_company_info: candidate names
    credit_codes,   \* extract_company_info: candidate tax identifiers
    amounts,        \* extract_amount_info: the amount pool
    found_amounts,  \* extract_amount_info: matches of specific_patterns
    pdf_files,      \* process_invoices: the .pdf files found
    file_idx,       \* process_invoices: index of the next document
    folder,         \* process_invoices: the files of the folder
    workbook,       \* process_invoices: sheets added so far
    success_count,  \* process_invoices: success_count
    saved,          \* process_invoices: workbook.save was called
    result          \* process_invoices: return value

vars == <<pc, text, invoice_type, invoice_info, companies, credit_codes,
          amounts, found_amounts, folder, pdf_files, file_idx, workbook,
          success_count, saved, result>>

----------------------------------------------------------------------------
(* Bounds of the checked instances. *)

\* number of tokens a generated text is concatenated from
MaxTokens == 3
\* number of lines of a text generated for extract_company_info
MaxLines == 6
\* number of non-blank items placed on those lines
MaxItems == 3
\* number of documents in the folder
MaxFiles == 3

----------------------------------------------------------------------------
(* Characters and character classes. *)

NL == "\n"

AsciiDigits == {"0", "1", "2", "3", "4", "5", "6", "7", "8", "9"}

\* [0-9]
IsAsciiDigit(c) == c \in AsciiDigits

\* \d on a str pattern: any Unicode decimal digit
IsDigit(c) == c \in AsciiDigits \cup {"w1"}

DigitValue(c) ==
    CASE c = "0" -> 0 [] c = "1" -> 1 [] c = "2" -> 2 [] c = "3" -> 3
      [] c = "4" -> 4 [] c = "5" -> 5 [] c = "6" -> 6 [] c = "7" -> 7
      [] c = "8" -> 8 [] c = "9" -> 9 [] c = "w1" -> 1

DigitChar(d) ==
    CASE d = 0 -> "0" [] d = 1 -> "1" [] d = 2 -> "2" [] d = 3 -> "3"
      [] d = 4 -> "4" [] d = 5 -> "5" [] d = 6 -> "6" [] d = 7 -> "7"
      [] d = 8 -> "8" [] d = 9 -> "9"

UpperLetters == {"A", "B", "I", "N", "O", "V", "C", "E", "X"}
LowerLetters == {"a", "b", "i", "n", "o", "v", "c", "e", "x"}

\* [A-Za-z]
IsAsciiLetter(c) == c \in UpperLetters \cup LowerLetters

\* [A-Z0-9]
IsUpperOrDigit(c) == c \in UpperLetters \cup AsciiDigits

\* re.IGNORECASE: characters are compared after case folding
Lower(c) ==
    CASE c = "A" -> "a" [] c = "B" -> "b" [] c = "I" -> "i" [] c = "N" -> "n"
      [] c = "O" -> "o" [] c = "V" -> "v" [] c = "C" -> "c" [] c = "E" -> "e"
      [] c = "X" -> "x" [] OTHER -> c

\* [\u4e00-\u9fa5]: the CJK characters of the model's alphabet.  Distinct
\* characters with the same syllable carry a digit (qi is U+5668, qi1 is
\* U+671F, qi3 is U+4F01).
CJKChars ==
    {"shang", "hai", "zeng", "zhi", "shui",       \* 上海增值税
     "ji", "qi", "bian", "hao",                   \* 机器编号
     "jiao", "yan", "ma",                         \* 校验码
     "dian", "zi", "fa", "piao", "pu", "tong",    \* 电子发票 普通
     "dai",                                       \* 代
     "kai", "ri", "qi1", "nian", "yue",           \* 开 日期 年月
     "gou", "mai3", "fang", "shou", "fu", "kuan", \* 购买方 收 付款
     "xiao", "shou4", "mai4",                     \* 销售 卖
     "gong", "si", "qi3", "ye", "ji2", "tuan",    \* 公司 企业 集团
     "you", "xian", "ze", "ren", "gu", "fen",     \* 有限 责任 股份
     "tong3", "yi", "she", "hui", "xin", "yong",  \* 统一社会信用
     "na", "ren2", "shi", "bie",                  \* 纳 人 识别
     "fu2", "wu", "fei",                          \* 服务 费
     "fu4", "he", "he2", "ji4", "e2", "jin",      \* 复核 合计 额 金
     "dan", "jia", "shu", "liang",                \* 单价 数量
     "zhang", "ying", "hao2",                     \* 张英豪
     "ci", "ge", "jian", "tai", "tao",            \* 次 个 件 台 套
     "jia3", "yi3", "bing", "ding", "ke", "ji3",  \* 甲乙丙丁 科技
     "wang", "ming"}                              \* 王 明

IsCJK(c) == c \in CJKChars

\* \s
IsSpace(c) == c \in {" ", NL}

\* \w
IsWord(c) == IsCJK(c) \/ IsAsciiLetter(c) \/ IsDigit(c) \/ c = "_"

----------------------------------------------------------------------------
(* Helpers on strings. *)

\* pat occurs in s starting at position p
OccursAt(pat, s, p) ==
    /\ p >= 1
    /\ p + Len(pat) - 1 <= Len(s)
    /\ \A k \in 1..Len(pat) : s[p + k - 1] = pat[k]

\* Python's `pat in s`
Occurs(pat, s) == \E p \in 1..(Len(s) - Len(pat) + 1) : OccursAt(pat, s, p)

\* membership of c in a character class of the patterns
InClass(cls, c) ==
    CASE cls = "space"      -> IsSpace(c)
      [] cls = "digit"      -> IsDigit(c)
      [] cls = "ascii"      -> IsAsciiDigit(c)
      [] cls = "cjk"        -> IsCJK(c)
      [] cls = "lettercjk"  -> IsAsciiLetter(c) \/ IsCJK(c)
      [] cls = "upperdigit" -> IsUpperOrDigit(c)
      [] cls = "digitcomma" -> IsDigit(c) \/ c = ","
      [] cls = "word"       -> IsWord(c)

\* length of the run of characters of class cls that starts at p
RECURSIVE RunLen(_, _, _)
RunLen(cls, s, p) ==
    IF p <= Len(s) /\ InClass(cls, s[p]) THEN 1 + RunLen(cls, s, p + 1) ELSE 0

\* str.split('\n')
RECURSIVE SplitFrom(_, _, _)
SplitFrom(s, p, cur) ==
    IF p > Len(s) THEN <<cur>>
    ELSE IF s[p] = NL THEN <<cur>> \o SplitFrom(s, p + 1, <<>>)
    ELSE SplitFrom(s, p + 1, Append(cur, s[p]))

split(s) == SplitFrom(s, 1, <<>>)

\* str.strip()
strip(s) ==
    LET idx == {k \in 1..Len(s) : ~IsSpace(s[k])}
    IN  IF idx = {} THEN <<>>
        ELSE LET lo == CHOOSE k \in idx : \A m \in idx : k <= m
                 hi == CHOOSE k \in idx : \A m \in idx : k >= m
             IN  SubSeq(s, lo, hi)

\* all concatenations of at most n tokens of T
RECURSIVE Concats(_, _)
Concats(T, n) ==
    IF n = 0 THEN {<<>>}
    ELSE LET prev == Concats(T, n - 1)
         IN  prev \cup {t \o s : t \in T, s \in prev}

Range(s) == {s[k] : k \in 1..Len(s)}

----------------------------------------------------------------------------
(* The record of parse_invoice_info. *)

EmptyInfo ==
    [identifier |-> <<>>, issue_date |-> <<>>,
     buyer_name |-> <<>>, buyer_tax_id |-> <<>>,
     seller_name |-> <<>>, seller_tax_id |-> <<>>,
     line_item_description |-> <<>>, unit_spec_token |-> <<>>,
     tax_amount |-> <<>>, total_amount |-> <<>>, issuer_name |-> <<>>]

----------------------------------------------------------------------------
(* detect_invoice_type *)

MarkShanghai == <<"shang", "hai", "zeng", "zhi", "shui">>
MarkMachine  == <<"ji", "qi", "bian", "hao">>
MarkChecksum == <<"jiao", "yan", "ma">>
MarkStandard == <<"dian", "zi", "fa", "piao", "lp", "pu", "tong", "fa", "piao", "rp">>

ComplexRuleMutant(t) == Occurs(MarkMachine, t) \/ Occurs(MarkChecksum, t)

ComplexRule(t) == Occurs(MarkMachine, t) /\ Occurs(MarkChecksum, t)

detect_invoice_type(t) ==
    IF Occurs(MarkShanghai, t) THEN "shanghai"
    ELSE IF ComplexRule(t) THEN "complex"
    ELSE IF Occurs(MarkStandard, t) THEN "standard"
    ELSE "generic"

----------------------------------------------------------------------------
(* extract_invoice_number *)

MinNumberLen == 8
MaxNumberLen == 20

At(s, k) == IF k >= 1 /\ k <= Len(s) THEN s[k] ELSE "eof"

\* the literal lit matches s at p, compared case-insensitively
OccursAtCI(lit, s, p) ==
    /\ p >= 1
    /\ p + Len(lit) - 1 <= Len(s)
    /\ \A k \in 1..Len(lit) : Lower(s[p + k - 1]) = Lower(lit[k])

LabelNumber == <<"fa", "piao", "hao", "ma">>
LabelCode   == <<"fa", "piao", "dai", "ma">>
LitInvoice  == <<"I", "n", "v", "o", "i", "c", "e">>
LitNo       == <<"N", "o">>

Min(a, b) == IF a <= b THEN a ELSE b
Max(a, b) == IF a >= b THEN a ELSE b

\* a match of  label[：:]\s*([0-9]+)  at p: <<start, end>> of the group, or <<0, 0>>
LabelledNumberAt(label, s, p) ==
    LET q  == p + Len(label)
        ws == RunLen("space", s, q + 1)
        d  == RunLen("ascii", s, q + 1 + ws)
    IN  IF OccursAtCI(label, s, p) /\ At(s, q) \in {"fcolon", ":"} /\ d >= 1
        THEN <<q + 1 + ws, q + ws + d>>
        ELSE <<0, 0>>

\* a match of  Invoice\s*No[.:]?\s*([0-9]+)  at p
InvoiceNoAt(s, p) ==
    LET q1  == p + Len(LitInvoice)
        ws1 == RunLen("space", s, q1)
        q2  == q1 + ws1 + Len(LitNo)
        q3  == IF At(s, q2) \in {".", ":"} THEN q2 + 1 ELSE q2
        ws2 == RunLen("space", s, q3)
        d   == RunLen("ascii", s, q3 + ws2)
    IN  IF OccursAtCI(LitInvoice, s, p) /\ OccursAtCI(LitNo, s, q1 + ws1) /\ d >= 1
        THEN <<q3 + ws2, q3 + ws2 + d - 1>>
        ELSE <<0, 0>>

\* a match of  (\d{8,20})  at p
BareNumberAt(s, p) ==
    LET d == RunLen("digit", s, p)
    IN  IF d >= MinNumberLen THEN <<p, p + Min(d, MaxNumberLen) - 1>> ELSE <<0, 0>>

\* the match of pattern k of extract_invoice_number at p
NumberPatternAt(k, s, p) ==
    CASE k = 1 -> LabelledNumberAt(LabelNumber, s, p)
      [] k = 2 -> LabelledNumberAt(LabelCode, s, p)
      [] k = 3 -> InvoiceNoAt(s, p)
      [] k = 4 -> BareNumberAt(s, p)

\* re.findall(pattern k, s): the groups of the non-overlapping matches, left to right
RECURSIVE FindAllNumbers(_, _, _)
FindAllNumbers(k, s, p) ==
    IF p > Len(s) THEN <<>>
    ELSE LET m == NumberPatternAt(k, s, p)
         IN  IF m[1] > 0
             THEN <<SubSeq(s, m[1], m[2])>> \o FindAllNumbers(k, s, m[2] + 1)
             ELSE FindAllNumbers(k, s, p + 1)

NumberCandidatesBareFirst(t) ==
    FindAllNumbers(4, t, 1) \o FindAllNumbers(1, t, 1)
        \o FindAllNumbers(2, t, 1) \o FindAllNumbers(3, t, 1)

\* the matches in the order the two loops visit them: pattern by pattern
NumberCandidates(t) ==
    FindAllNumbers(1, t, 1) \o FindAllNumbers(2, t, 1)
        \o FindAllNumbers(3, t, 1) \o FindAllNumbers(4, t, 1)

NumberLenOk(m) == Len(m) >= MinNumberLen /\ Len(m) <= MaxNumberLen

extract_invoice_number(t, info) ==
    LET valid == SelectSeq(NumberCandidates(t), NumberLenOk)
    IN  IF valid # <<>> THEN [info EXCEPT !.identifier = valid[1]] ELSE info

----------------------------------------------------------------------------
(* extract_invoice_date *)

LabelDate == <<"kai", "piao", "ri", "qi1">>

\* \d{1,2} followed by the character next: the number of digits taken, or 0
DigitsBefore(s, q, next) ==
    IF IsDigit(At(s, q)) /\ IsDigit(At(s, q + 1)) /\ At(s, q + 2) = next THEN 2
    ELSE IF IsDigit(At(s, q)) /\ At(s, q + 1) = next THEN 1
    ELSE 0

\* a trailing \d{1,2}
DigitsLast(s, q) ==
    IF IsDigit(At(s, q)) /\ IsDigit(At(s, q + 1)) THEN 2
    ELSE IF IsDigit(At(s, q)) THEN 1
    ELSE 0

\* \d{4}年\d{1,2}月\d{1,2}日 at p: the position of its last character, or 0
CJKDateAt(s, p) ==
    LET m == DigitsBefore(s, p + 5, "yue")
        d == DigitsBefore(s, p + 6 + m, "ri")
    IN  IF (\A k \in 0..3 : IsDigit(At(s, p + k))) /\ At(s, p + 4) = "nian"
           /\ m > 0 /\ d > 0
        THEN p + 6 + m + d
        ELSE 0

\* \d{4}<sep>\d{1,2}<sep>\d{1,2} at p: the position of its last character, or 0
SepDateAt(sep, s, p) ==
    LET m == DigitsBefore(s, p + 5, sep)
        d == DigitsLast(s, p + 6 + m)
    IN  IF (\A k \in 0..3 : IsDigit(At(s, p + k))) /\ At(s, p + 4) = sep
           /\ m > 0 /\ d > 0
        THEN p + 5 + m + d
        ELSE 0

\* 开票日期[：:]\s*(\d{4}年\d{1,2}月\d{1,2}日) at p: <<start, end>> of the group
LabelledDateAt(s, p) ==
    LET q  == p + Len(LabelDate)
        ws == RunLen("space", s, q + 1)
        e  == CJKDateAt(s, q + 1 + ws)
    IN  IF OccursAt(LabelDate, s, p) /\ At(s, q) \in {"fcolon", ":"} /\ e > 0
        THEN <<q + 1 + ws, e>>
        ELSE <<0, 0>>

\* the patterns of extract_invoice_date, in the order of the list
DatePatternAt(k, s, p) ==
    CASE k = 1 -> <<IF CJKDateAt(s, p) > 0 THEN p ELSE 0, CJKDateAt(s, p)>>
      [] k = 2 -> LabelledDateAt(s, p)
      [] k = 3 -> <<IF SepDateAt("/", s, p) > 0 THEN p ELSE 0, SepDateAt("/", s, p)>>
      [] k = 4 -> <<IF SepDateAt("-", s, p) > 0 THEN p ELSE 0, SepDateAt("-", s, p)>>
      [] k = 5 -> <<IF SepDateAt(".", s, p) > 0 THEN p ELSE 0, SepDateAt(".", s, p)>>

NumDatePatterns == 5

\* re.search(pattern k, s).group(1), or <<>> when there is no match
DateSearch(k, s) ==
    LET hits == {p \in 1..Len(s) : DatePatternAt(k, s, p)[1] > 0}
    IN  IF hits = {} THEN <<>>
        ELSE LET p == CHOOSE x \in hits : \A y \in hits : x <= y
                 m == DatePatternAt(k, s, p)
             IN  SubSeq(s, m[1], m[2])

extract_invoice_date(t, info) ==
    LET ks == {k \in 1..NumDatePatterns : DateSearch(k, t) # <<>>}
    IN  IF ks = {} THEN info
        ELSE LET k == CHOOSE x \in ks : \A y \in ks : x <= y
             IN  [info EXCEPT !.issue_date = DateSearch(k, t)]

----------------------------------------------------------------------------
(* extract_company_info *)

SufGongSi == <<"gong", "si">>
SufQiYe   == <<"qi3", "ye">>
SufJiTuan == <<"ji2", "tuan">>
SufYouXian == <<"you", "xian">>
SufZeRen  == <<"ze", "ren">>
SufGuFen  == <<"gu", "fen">>

\* (?:公司|企业|集团|有限责任公司|股份有限公司)
CompanySuffixes1 ==
    <<SufGongSi, SufQiYe, SufJiTuan,
      SufYouXian \o SufZeRen \o SufGongSi, SufGuFen \o SufYouXian \o SufGongSi>>

\* (?:公司|企业|集团|有限|责任|股份)
CompanySuffixes2 ==
    <<SufGongSi, SufQiYe, SufJiTuan, SufYouXian, SufZeRen, SufGuFen>>

MinRun1 == 4
MinRun2 == 6
MinCompanyLen == 5

\* the end of the first alternative of sufs that matches at q, or 0
SuffixEnd(sufs, s, q) ==
    LET ok == {a \in 1..Len(sufs) : OccursAt(sufs[a], s, q)}
    IN  IF ok = {} THEN 0
        ELSE LET a == CHOOSE x \in ok : \A y \in ok : x <= y
             IN  q + Len(sufs[a]) - 1

\* a match of  (cls{minRun,}(?:sufs))  at p: the position of its last
\* character, or 0.  The quantifier is greedy: the longest run that is
\* followed by a suffix wins.
CompanyAt(cls, minRun, sufs, s, p) ==
    LET r  == RunLen(cls, s, p)
        ks == {k \in minRun..r : SuffixEnd(sufs, s, p + k) > 0}
    IN  IF ks = {} THEN 0
        ELSE LET k == CHOOSE x \in ks : \A y \in ks : x >= y
             IN  SuffixEnd(sufs, s, p + k)

CompanyPatternAt(n, s, p) ==
    IF n = 1 THEN CompanyAt("cjk", MinRun1, CompanySuffixes1, s, p)
    ELSE CompanyAt("lettercjk", MinRun2, CompanySuffixes2, s, p)

\* re.findall(company_patterns[n], s)
RECURSIVE FindAllCompanies(_, _, _)
FindAllCompanies(n, s, p) ==
    IF p > Len(s) THEN <<>>
    ELSE LET e == CompanyPatternAt(n, s, p)
         IN  IF e > 0
             THEN <<SubSeq(s, p, e)>> \o FindAllCompanies(n, s, e + 1)
             ELSE FindAllCompanies(n, s, p + 1)

\* for match in matches: if <keep> and match not in acc: acc.append(match)
RECURSIVE AppendNew(_, _, _)
AppendNew(acc, ms, minLen) ==
    IF ms = <<>> THEN acc
    ELSE AppendNew(IF Len(ms[1]) > minLen /\ ms[1] \notin Range(acc)
                   THEN Append(acc, ms[1]) ELSE acc,
                   Tail(ms), minLen)

CollectCompanies(t) ==
    AppendNew(AppendNew(<<>>, FindAllCompanies(1, t, 1), MinCompanyLen),
              FindAllCompanies(2, t, 1), MinCompanyLen)

LabelCredit == <<"tong3", "yi", "she", "hui", "xin", "yong", "dai", "ma">>
LabelTaxpayer == <<"na", "shui", "ren2", "shi", "bie", "hao">>

MinCodeLen == 15
MaxCodeLen == 18

\* ([A-Z0-9]{15,18}) at p: <<start, end>>, or <<0, 0>>
BareCodeAt(s, p) ==
    LET r == RunLen("upperdigit", s, p)
    IN  IF r >= MinCodeLen THEN <<p, p + Min(r, MaxCodeLen) - 1>> ELSE <<0, 0>>

\* label[：:]\s*([A-Z0-9]{15,18}) at p
LabelledCodeAt(label, s, p) ==
    LET q  == p + Len(label)
        ws == RunLen("space", s, q + 1)
    IN  IF OccursAt(label, s, p) /\ At(s, q) \in {"fcolon", ":"}
        THEN BareCodeAt(s, q + 1 + ws)
        ELSE <<0, 0>>

CodePatternAt(n, s, p) ==
    CASE n = 1 -> BareCodeAt(s, p)
      [] n = 2 -> LabelledCodeAt(LabelCredit, s, p)
      [] n = 3 -> LabelledCodeAt(LabelTaxpayer, s, p)

\* re.findall(code_patterns[n], s)
RECURSIVE FindAllCodes(_, _, _)
FindAllCodes(n, s, p) ==
    IF p > Len(s) THEN <<>>
    ELSE LET m == CodePatternAt(n, s, p)
         IN  IF m[1] > 0
             THEN <<SubSeq(s, m[1], m[2])>> \o FindAllCodes(n, s, m[2] + 1)
             ELSE FindAllCodes(n, s, p + 1)

CollectCodes(t) ==
    AppendNew(AppendNew(AppendNew(<<>>, FindAllCodes(1, t, 1), -1),
                        FindAllCodes(2, t, 1), -1),
              FindAllCodes(3, t, 1), -1)

BuyerKeywords ==
    {<<"gou", "mai3", "fang">>, <<"mai3", "fang">>,
     <<"shou", "piao", "fang">>, <<"fu", "kuan", "fang">>}

SellerKeywords ==
    {<<"xiao", "shou4", "fang">>, <<"mai4", "fang">>,
     <<"kai", "piao", "fang">>, <<"shou", "kuan", "fang">>}

HasKeyword(kws, line) == \E kw \in kws : Occurs(kw, line)

WindowBefore == 3
WindowAfter == 5

\* range(max(0, i-3), min(len(lines), i+5)) for the line at 1-based index i:
\* the first and the last 1-based index visited
WindowLo(i) == Max(1, i - WindowBefore)

WindowHiMutant(i, n) == Min(n, i + WindowAfter)

WindowHi(i, n) == Min(n, i + WindowAfter - 1)

\* list.remove: the sequence without its element at index k
RemoveAt(seq, k) == SubSeq(seq, 1, k - 1) \o SubSeq(seq, k + 1, Len(seq))

\* the state of the role scan: the two names and the candidate list
ClaimBuyerNoRemove(st, k) == [st EXCEPT !.buyer = st.companies[k]]

\* invoice_info['购买方名称'] = company; companies.remove(company)
ClaimBuyer(st, k) ==
    [st EXCEPT !.buyer = st.companies[k], !.companies = RemoveAt(st.companies, k)]

\* invoice_info['销售方名称'] = company; companies.remove(company)
ClaimSeller(st, k) ==
    [st EXCEPT !.seller = st.companies[k], !.companies = RemoveAt(st.companies, k)]

\* for company in companies: if company in lines[j] and not <role>: ...; break
BuyerLine(line, st) ==
    LET hit == {k \in 1..Len(st.companies) :
                    Occurs(st.companies[k], line) /\ st.buyer = <<>>}
    IN  IF hit = {} THEN st
        ELSE ClaimBuyer(st, CHOOSE k \in hit : \A m \in hit : k <= m)

SellerLine(line, st) ==
    LET hit == {k \in 1..Len(st.companies) :
                    Occurs(st.companies[k], line) /\ st.seller = <<>>}
    IN  IF hit = {} THEN st
        ELSE ClaimSeller(st, CHOOSE k \in hit : \A m \in hit : k <= m)

\* for j in range(...): the lines j..hi of the window, in order
RECURSIVE BuyerWindow(_, _, _, _)
BuyerWindow(lines, j, hi, st) ==
    IF j > hi THEN st ELSE BuyerWindow(lines, j + 1, hi, BuyerLine(lines[j], st))

RECURSIVE SellerWindow(_, _, _, _)
SellerWindow(lines, j, hi, st) ==
    IF j > hi THEN st ELSE SellerWindow(lines, j + 1, hi, SellerLine(lines[j], st))

\* One iteration of `for i, line in enumerate(lines)`.  The window scan of a
\* role changes nothing once it has run for a line, so running it once per
\* keyword found in the line equals running it once.
RoleLine(lines, i, st) ==
    LET n  == Len(lines)
        s1 == IF HasKeyword(BuyerKeywords, lines[i])
              THEN BuyerWindow(lines, WindowLo(i), WindowHi(i, n), st) ELSE st
    IN  IF HasKeyword(SellerKeywords, lines[i])
        THEN SellerWindow(lines, WindowLo(i), WindowHi(i, n), s1) ELSE s1

RECURSIVE RoleScan(_, _, _)
RoleScan(lines, i, st) ==
    IF i > Len(lines) THEN st ELSE RoleScan(lines, i + 1, RoleLine(lines, i, st))

\* lines 233-253: the names and the candidate list after the scan
AssignRoles(t, info, cands) ==
    RoleScan(split(t), 1,
             [buyer |-> info.buyer_name, seller |-> info.seller_name,
              companies |-> cands])

\* lines 255-261
AssignRemaining(st) ==
    LET remaining == SelectSeq(st.companies,
                               LAMBDA c : c \notin {st.buyer, st.seller})
        b == IF remaining # <<>> /\ st.buyer = <<>> THEN remaining[1] ELSE st.buyer
        s == IF remaining # <<>> /\ st.seller = <<>> /\ Len(remaining) > 1
             THEN remaining[2] ELSE st.seller
    IN  [st EXCEPT !.buyer = b, !.seller = s]

\* lines 263-268
AssignCodes(info, codes) ==
    LET b == IF codes # <<>> /\ info.buyer_tax_id = <<>>
             THEN codes[1] ELSE info.buyer_tax_id
        s == IF Len(codes) > 1 /\ info.seller_tax_id = <<>>
             THEN codes[2] ELSE info.seller_tax_id
    IN  [info EXCEPT !.buyer_tax_id = b, !.seller_tax_id = s]

extract_company_info(t, info) ==
    LET st == AssignRemaining(AssignRoles(t, info, CollectCompanies(t)))
    IN  AssignCodes([info EXCEPT !.buyer_name = st.buyer, !.seller_name = st.seller],
                    CollectCodes(t))

----------------------------------------------------------------------------
(* extract_amount_info.  A float is modelled by its value in hundredths;    *)
(* the generated amounts carry at most two fractional digits, for which    *)
(* float() and the format .2f are exact.                                   *)

\* [¥￥]([\d,]+\.?\d*) at p: <<start, end>> of the group, or <<0, 0>>
AmountAt(s, p) ==
    LET a   == RunLen("digitcomma", s, p + 1)
        dot == IF At(s, p + 1 + a) = "." THEN 1 ELSE 0
        f   == RunLen("digit", s, p + 1 + a + dot)
    IN  IF At(s, p) \in {"yen", "fyen"} /\ a >= 1
        THEN <<p + 1, p + a + dot + f>>
        ELSE <<0, 0>>

\* re.findall on one line
RECURSIVE FindAllAmounts(_, _)
FindAllAmounts(s, p) ==
    IF p > Len(s) THEN <<>>
    ELSE LET m == AmountAt(s, p)
         IN  IF m[1] > 0
             THEN <<SubSeq(s, m[1], m[2])>> \o FindAllAmounts(s, m[2] + 1)
             ELSE FindAllAmounts(s, p + 1)

\* the value of a string of digits
RECURSIVE DigitsValue(_)
DigitsValue(ds) ==
    IF ds = <<>> THEN 0
    ELSE 10 * DigitsValue(SubSeq(ds, 1, Len(ds) - 1)) + DigitValue(ds[Len(ds)])

\* float(match.replace(',', '')) in hundredths; -1 when float() raises
\* ValueError (no digit at all).  Exact for matches of at most two
\* fractional digits, which is what AmountTexts generates.
ParseFloat(m) ==
    LET bare == SelectSeq(m, LAMBDA c : c # ",")
        dots == {k \in 1..Len(bare) : bare[k] = "."}
        dp   == IF dots = {} THEN Len(bare) + 1 ELSE CHOOSE k \in dots : TRUE
        ip   == SubSeq(bare, 1, dp - 1)
        fp   == SubSeq(bare, dp + 1, Len(bare))
        f2   == IF Len(fp) = 0 THEN 0
                ELSE IF Len(fp) = 1 THEN 10 * DigitsValue(fp)
                ELSE DigitsValue(SubSeq(fp, 1, 2))
    IN  IF ip = <<>> /\ fp = <<>> THEN -1 ELSE 100 * DigitsValue(ip) + f2

\* the decimal digits of n >= 0
RECURSIVE IntToStr(_)
IntToStr(n) ==
    IF n < 10 THEN <<DigitChar(n)>> ELSE Append(IntToStr(n \div 10), DigitChar(n % 10))

\* f"{amount:.2f}"
Format2(v) ==
    IntToStr(v \div 100) \o <<".", DigitChar((v % 100) \div 10), DigitChar(v % 10)>>

\* lines 277-287: the amounts of the lines, in the order of the text
RECURSIVE PoolOfLines(_, _)
PoolOfLines(lines, i) ==
    IF i > Len(lines) THEN <<>>
    ELSE LET ms == FindAllAmounts(strip(lines[i]), 1)
             vs == [k \in 1..Len(ms) |-> ParseFloat(ms[k])]
         IN  SelectSeq(vs, LAMBDA v : v >= 0) \o PoolOfLines(lines, i + 1)

AmountPool(t) == PoolOfLines(split(t), 1)

SortAmountsMutant(a) == a

\* list.sort()
SortAmounts(a) == SortSeq(a, LAMBDA x, y : x < y)

SeqMax(a) == CHOOSE x \in Range(a) : \A y \in Range(a) : x >= y

BandLo == 100
BandHi == 1000

InBand(v) == 100 * BandLo <= v /\ v <= 100 * BandHi

\* lines 290-301 on the sorted pool
ClassifyAmounts(info, sorted) ==
    IF sorted = <<>> THEN info
    ELSE LET band == SelectSeq(sorted, InBand)
             i1   == [info EXCEPT !.total_amount = Format2(SeqMax(sorted))]
         IN  IF band # <<>> THEN [i1 EXCEPT !.tax_amount = Format2(band[1])] ELSE i1

Lit3992 == <<"yen", "3", "9", "9", "2", ".", "0", "0">>
Lit225  == <<"yen", "2", "2", "5", ".", "9", "6">>
Lit3766 == <<"yen", "3", "7", "6", "6", ".", "0", "4">>

\* re.findall of a literal pattern: one entry per occurrence
CountLit(lit, t) == Cardinality({p \in 1..Len(t) : OccursAt(lit, t, p)})

Repeat(v, n) == [k \in 1..n |-> v]

\* float(match) of the three literals
Val3992 == ParseFloat(Tail(Lit3992))
Val225  == ParseFloat(Tail(Lit225))
Val3766 == ParseFloat(Tail(Lit3766))

\* lines 311-315
FoundAmounts(t) ==
    Repeat(Val3992, CountLit(Lit3992, t)) \o Repeat(Val225, CountLit(Lit225, t))
        \o Repeat(Val3766, CountLit(Lit3766, t))

\* lines 317-331
SpecificOverride(info, found) ==
    IF found = <<>> THEN info
    ELSE LET sorted == SortSeq(found, LAMBDA x, y : x < y)
             tot == IF Val3992 \in Range(found) THEN Tail(Lit3992)
                    ELSE Format2(SeqMax(found))
             tax == IF Val225 \in Range(found) THEN Tail(Lit225)
                    ELSE IF Len(found) > 1 THEN Format2(sorted[2])
                    ELSE info.tax_amount
         IN  [info EXCEPT !.total_amount = tot, !.tax_amount = tax]

extract_amount_info(t, info) ==
    SpecificOverride(ClassifyAmounts(info, SortAmounts(AmountPool(t))), FoundAmounts(t))

----------------------------------------------------------------------------
(* extract_other_fields *)

KwService == <<"fu2", "wu">>
KwFee     == <<"fei">>
KwSale    == <<"xiao", "shou4">>

IsItemLine(line) ==
    Occurs(<<"*">>, line)
        /\ (Occurs(KwService, line) \/ Occurs(KwFee, line) \/ Occurs(KwSale, line))

\* the first index at which the sequence of flags is TRUE, or 0
FirstTrue(flags) ==
    LET ok == {k \in 1..Len(flags) : flags[k]}
    IN  IF ok = {} THEN 0 ELSE CHOOSE k \in ok : \A m \in ok : k <= m

ExcludedNames ==
    {<<"kai", "piao", "ren2">>, <<"fu4", "he">>, <<"shou", "kuan">>,
     <<"xiao", "shou4">>, <<"gou", "mai3">>, <<"he2", "ji4">>, <<"shui", "e2">>,
     <<"jin", "e2">>, <<"dan", "jia">>, <<"shu", "liang">>}

MinNameLen == 2
MaxNameLen == 4

\* re.match(r'^[一-龥]{2,4}$', line_clean) and the exclusion test, lines 350-352
IsNameLine(line) ==
    LET c == strip(line)
    IN  /\ Len(c) >= MinNameLen /\ Len(c) <= MaxNameLen
        /\ \A k \in 1..Len(c) : IsCJK(c[k])
        /\ c \notin ExcludedNames
        /\ ~\E ex \in ExcludedNames : Occurs(ex, c)

NameZhangYingHao == <<"zhang", "ying", "hao2">>

MaxGuessRun == 3

\* the match of name_patterns[n] at p: the position of its last character, or 0
NamePatternAt(n, s, p) ==
    CASE n = 1 -> IF OccursAt(NameZhangYingHao, s, p) THEN p + 2 ELSE 0
      [] n = 2 -> IF At(s, p) = "zhang" /\ RunLen("word", s, p + 1) >= 1
                  THEN p + RunLen("word", s, p + 1) ELSE 0
      [] n = 3 -> IF RunLen("cjk", s, p) >= MinNameLen
                  THEN p + Min(RunLen("cjk", s, p), MaxGuessRun) - 1 ELSE 0

RECURSIVE FindAllNames(_, _, _)
FindAllNames(n, s, p) ==
    IF p > Len(s) THEN <<>>
    ELSE LET e == NamePatternAt(n, s, p)
         IN  IF e > 0
             THEN <<SubSeq(s, p, e)>> \o FindAllNames(n, s, e + 1)
             ELSE FindAllNames(n, s, p + 1)

NameLenOk(m) == Len(m) >= MinNameLen /\ Len(m) <= MaxNameLen

\* lines 357-370: the first match of acceptable length, pattern by pattern
GuessName(t) ==
    LET valid == SelectSeq(FindAllNames(1, t, 1) \o FindAllNames(2, t, 1)
                               \o FindAllNames(3, t, 1), NameLenOk)
    IN  IF valid = <<>> THEN <<>> ELSE valid[1]

SpecKeywords == <<"ci", "ge", "jian", "tai", "tao", "zhang", "fen">>

extract_other_fields(t, info) ==
    LET lines == split(t)
        it == FirstTrue([k \in 1..Len(lines) |-> IsItemLine(lines[k])])
        nm == FirstTrue([k \in 1..Len(lines) |-> IsNameLine(lines[k])])
        sp == FirstTrue([k \in 1..Len(SpecKeywords) |-> Occurs(<<SpecKeywords[k]>>, t)])
        i1 == IF it > 0 THEN [info EXCEPT !.line_item_description = strip(lines[it])]
              ELSE info
        i2 == IF nm > 0 THEN [i1 EXCEPT !.issuer_name = strip(lines[nm])] ELSE i1
        i3 == IF i2.issuer_name = <<>> THEN [i2 EXCEPT !.issuer_name = GuessName(t)]
              ELSE i2
    IN  IF sp > 0 THEN [i3 EXCEPT !.unit_spec_token = <<SpecKeywords[sp]>>] ELSE i3

----------------------------------------------------------------------------
(* parse_invoice_info and the parsers it dispatches to *)

\* None of the extractors can raise on a str, so the except branch of
\* parse_generic_invoice is never taken.
parse_generic_invoice(t, info) ==
    extract_other_fields(t,
        extract_amount_info(t,
            extract_company_info(t,
                extract_invoice_date(t,
                    extract_invoice_number(t, info)))))

ShanghaiBefore == 2
ShanghaiAfter == 3

\* re.search(r'(\d{8,})', line).group(1), or <<>>
LongDigitRun(line) ==
    LET hits == {p \in 1..Len(line) : RunLen("digit", line, p) >= MinNumberLen}
    IN  IF hits = {} THEN <<>>
        ELSE LET p == CHOOSE x \in hits : \A y \in hits : x <= y
             IN  SubSeq(line, p, p + RunLen("digit", line, p) - 1)

\* for j in range(max(0, i-2), min(len(lines), i+3))
RECURSIVE ShanghaiWindow(_, _, _, _)
ShanghaiWindow(lines, j, hi, id) ==
    IF j > hi THEN id
    ELSE ShanghaiWindow(lines, j + 1, hi,
                        IF LongDigitRun(lines[j]) # <<>> /\ id = <<>>
                        THEN LongDigitRun(lines[j]) ELSE id)

RECURSIVE ShanghaiScan(_, _, _)
ShanghaiScan(lines, i, id) ==
    IF i > Len(lines) THEN id
    ELSE ShanghaiScan(lines, i + 1,
            IF Occurs(LabelNumber, strip(lines[i])) \/ Occurs(LabelCode, strip(lines[i]))
            THEN ShanghaiWindow(lines, Max(1, i - ShanghaiBefore),
                                Min(Len(lines), i + ShanghaiAfter - 1), id)
            ELSE id)

\* lines 112-125: the record after the pre-pass
ShanghaiPrepass(t, info) ==
    [info EXCEPT !.identifier = ShanghaiScan(split(t), 1, info.identifier)]

----------------------------------------------------------------------------
(* process_invoices and its helpers *)

ExtPdf == <<".", "p", "d", "f">>
ExtTxt == <<".", "t", "x", "t">>

\* str.endswith
EndsWith(s, suf) == Len(s) >= Len(suf) /\ SubSeq(s, Len(s) - Len(suf) + 1, Len(s)) = suf

\* return_file_list_in_folder: the files whose name ends with file_type
return_file_list_in_folder(dir) == SelectSeq(dir, LAMBDA f : EndsWith(f.name, ExtPdf))

\* extract_text_from_pdf: the text of the pages, "" when fitz fails
extract_text_from_pdf(f) == f.content

\* os.path.splitext(os.path.basename(pdf_file))[0]
Splitext(name) ==
    LET dots == {k \in 2..Len(name) : name[k] = "."}
    IN  IF dots = {} THEN name
        ELSE SubSeq(name, 1, (CHOOSE k \in dots : \A m \in dots : k >= m) - 1)

SheetNameLimit == 31

\* lines 452-455
SheetName(name) ==
    LET root == Splitext(name)
    IN  IF Len(root) > SheetNameLimit THEN SubSeq(root, 1, SheetNameLimit) ELSE root

\* add_invoice_to_excel: one sheet of field/value rows (openpyxl is taken
\* to succeed)
add_invoice_to_excel(wb, info, sheet_name) ==
    Append(wb, [title |-> sheet_name, info |-> info])

----------------------------------------------------------------------------
(* Generated inputs. *)

TokNL == <<NL>>
TokX  == <<"x">>

\* detect_invoice_type: the four markers, and a marker in two halves
DetectTokens ==
    {MarkShanghai, MarkMachine, MarkChecksum, MarkStandard,
     <<"jiao", "yan">>, <<"ma">>, TokNL}

DetectTexts == Concats(DetectTokens, MaxTokens)

Digits7  == <<"1", "2", "3", "4", "5", "6", "7">>
Digits8  == <<"8", "7", "6", "5", "4", "3", "2", "1">>
Digits13 == <<"9", "0", "9", "0", "9", "0", "9", "0", "9", "0", "9", "0", "9">>
Wide8    == <<"w1", "w1", "w1", "w1", "w1", "w1", "w1", "w1">>

\* parse_invoice_info: labels with and without colon, digit runs that
\* concatenate to 7..39 digits, the regional marker
NumberTokens ==
    {LabelNumber \o <<"fcolon">>, LabelCode \o <<":">>, LabelNumber,
     <<"i", "n", "v", "o", "i", "c", "e", " ", "N", "O", ".">>,
     Digits7, Digits8, Digits13, Wide8, MarkShanghai, TokNL}

NumberTexts == Concats(NumberTokens, MaxTokens)

DateA == <<"2", "0", "2", "3", "nian", "1", "yue", "1", "ri">>
DateB == <<"2", "0", "2", "4", "nian", "0", "3", "yue", "1", "5", "ri">>

DateTokens ==
    {LabelDate \o <<"fcolon">>, DateA, DateB,
     <<"2", "0", "2", "4", "/", "3", "/", "5">>,
     <<"2", "0", "2", "4", "-", "0", "3", "-", "0", "5">>,
     <<"2", "0", "2", "4", ".", "3", ".", "5">>,
     <<"7">>, TokNL, <<" ">>}

DateTexts == Concats(DateTokens, MaxTokens)

AmountTokens ==
    {Lit3992, Lit225, Lit3766,
     <<"yen", "5", "0", "0">>, <<"yen", "1", "5", "0", ".", "5">>,
     <<"fyen", "1", ",", "0", "0", "0">>, <<"yen", "5", "0", "0", "0">>,
     <<"yen", ",">>, TokNL}

AmountTexts == Concats(AmountTokens, MaxTokens)

OtherTokens ==
    {NameZhangYingHao, <<"wang", "ming">>, <<"kai", "piao", "ren2">>,
     <<"shou", "kuan", "ren2">>, <<"*", "fu2", "wu">>, <<"zhang">>,
     TokX, <<" ">>, TokNL}

OtherTexts == Concats(OtherTokens, MaxTokens)

NameA == <<"jia3", "yi3", "bing", "ding", "gong", "si">>
NameB == <<"wang", "ming", "ke", "ji3", "you", "xian", "gong", "si">>

\* a line of a text for extract_company_info: a role label or a name
CompanyItems ==
    {<<"gou", "mai3", "fang", "fcolon">>, <<"xiao", "shou4", "fang", "fcolon">>,
     NameA, NameB}

\* the sequences of n lines that carry at most m items, one item per line
RECURSIVE LineSeqs(_, _)
LineSeqs(n, m) ==
    IF n = 0 THEN {<<>>}
    ELSE {<<TokX>> \o r : r \in LineSeqs(n - 1, m)}
         \cup (IF m = 0 THEN {}
               ELSE {<<it>> \o r : it \in CompanyItems, r \in LineSeqs(n - 1, m - 1)})

\* '\n'.join(lines)
RECURSIVE Join(_)
Join(ls) ==
    IF Len(ls) = 0 THEN <<>>
    ELSE IF Len(ls) = 1 THEN ls[1]
    ELSE ls[1] \o TokNL \o Join(Tail(ls))

CompanyTexts == {Join(ls) : ls \in LineSeqs(MaxLines, MaxItems)}

DocTexts ==
    {<<>>,
     LabelNumber \o <<"fcolon">> \o Digits8,
     MarkShanghai \o TokNL \o DateA \o <<"yen", "5", "0", "0">>}

LongRoot == Repeat("n", SheetNameLimit)

\* the files a folder may hold at position k: the names are distinct
FilesAt(k) ==
    {[name |-> <<DigitChar(k)>> \o ExtPdf, content |-> t] : t \in DocTexts}
    \cup {[name |-> <<DigitChar(k)>> \o LongRoot \o ExtPdf, content |-> <<"x">>],
          [name |-> <<DigitChar(k)>> \o ExtTxt, content |-> <<"x">>]}

RECURSIVE Folders(_)
Folders(n) ==
    IF n = 0 THEN {<<>>}
    ELSE LET prev == Folders(n - 1)
         IN  prev \cup {Append(d, f) : d \in {x \in prev : Len(x) = n - 1}, f \in FilesAt(n)}

----------------------------------------------------------------------------
(* States and actions. *)

NoBatch ==
    /\ folder = <<>> /\ pdf_files = <<>> /\ file_idx = 0 /\ workbook = <<>>
    /\ success_count = 0 /\ saved = FALSE /\ result = "none"

NoScratch ==
    /\ invoice_type = "none" /\ invoice_info = EmptyInfo
    /\ companies = <<>> /\ credit_codes = <<>>
    /\ amounts = <<>> /\ found_amounts = <<>>

batch_vars == <<folder, pdf_files, file_idx, workbook, success_count, saved, result>>
scratch_vars == <<companies, credit_codes, amounts, found_amounts>>

\* parse_invoice_info, lines 81-83
DetectType ==
    /\ pc = "parse"
    /\ invoice_type' = detect_invoice_type(text)
    /\ pc' = "dispatch"
    /\ UNCHANGED <<text, invoice_info, scratch_vars, batch_vars>>

\* parse_invoice_info, line 89, and the pre-pass of parse_shanghai_invoice
DispatchShanghai ==
    /\ pc = "dispatch"
    /\ invoice_type = "shanghai"
    /\ invoice_info' = ShanghaiPrepass(text, invoice_info)
    /\ pc' = "generic"
    /\ UNCHANGED <<text, invoice_type, scratch_vars, batch_vars>>

\* parse_invoice_info, lines 87, 91, 93: straight to parse_generic_invoice
DispatchGeneric ==
    /\ pc = "dispatch"
    /\ invoice_type \in {"standard", "complex", "generic"}
    /\ pc' = "generic"
    /\ UNCHANGED <<text, invoice_type, invoice_info, scratch_vars, batch_vars>>

\* parse_generic_invoice
ParseGeneric ==
    /\ pc = "generic"
    /\ invoice_info' = parse_generic_invoice(text, invoice_info)
    /\ pc' = "done"
    /\ UNCHANGED <<text, invoice_type, scratch_vars, batch_vars>>

\* extract_invoice_date
ExtractInvoiceDate ==
    /\ pc = "date"
    /\ invoice_info' = extract_invoice_date(text, invoice_info)
    /\ pc' = "done"
    /\ UNCHANGED <<text, invoice_type, scratch_vars, batch_vars>>

\* extract_other_fields
ExtractOtherFields ==
    /\ pc = "other"
    /\ invoice_info' = extract_other_fields(text, invoice_info)
    /\ pc' = "done"
    /\ UNCHANGED <<text, invoice_type, scratch_vars, batch_vars>>

\* extract_company_info, lines 214-226
CollectCandidates ==
    /\ pc = "collect"
    /\ companies' = CollectCompanies(text)
    /\ credit_codes' = CollectCodes(text)
    /\ pc' = "roles"
    /\ UNCHANGED <<text, invoice_type, invoice_info, amounts, found_amounts, batch_vars>>

\* extract_company_info, lines 233-253
ScanRoles ==
    /\ pc = "roles"
    /\ LET st == AssignRoles(text, invoice_info, companies)
       IN  /\ invoice_info' = [invoice_info EXCEPT !.buyer_name = st.buyer,
                                                   !.seller_name = st.seller]
           /\ companies' = st.companies
    /\ pc' = "remaining"
    /\ UNCHANGED <<text, invoice_type, credit_codes, amounts, found_amounts, batch_vars>>

\* extract_company_info, lines 255-261
FallbackRoles ==
    /\ pc = "remaining"
    /\ LET st == AssignRemaining([buyer |-> invoice_info.buyer_name,
                                  seller |-> invoice_info.seller_name,
                                  companies |-> companies])
       IN  invoice_info' = [invoice_info EXCEPT !.buyer_name = st.buyer,
                                                !.seller_name = st.seller]
    /\ pc' = "codes"
    /\ UNCHANGED <<text, invoice_type, scratch_vars, batch_vars>>

\* extract_company_info, lines 263-270
AssignCreditCodes ==
    /\ pc = "codes"
    /\ invoice_info' = AssignCodes(invoice_info, credit_codes)
    /\ pc' = "done"
    /\ UNCHANGED <<text, invoice_type, scratch_vars, batch_vars>>

\* extract_amount_info, lines 277-287
CollectAmounts ==
    /\ pc = "amounts"
    /\ amounts' = AmountPool(text)
    /\ pc' = "classify"
    /\ UNCHANGED <<text, invoice_type, invoice_info, companies, credit_codes,
                   found_amounts, batch_vars>>

\* extract_amount_info, lines 290-301
Classify ==
    /\ pc = "classify"
    /\ amounts' = SortAmounts(amounts)
    /\ invoice_info' = ClassifyAmounts(invoice_info, amounts')
    /\ pc' = "override"
    /\ UNCHANGED <<text, invoice_type, companies, credit_codes, found_amounts, batch_vars>>

\* extract_amount_info, lines 305-333
Override ==
    /\ pc = "override"
    /\ found_amounts' = SortAmounts(FoundAmounts(text))
    /\ invoice_info' = SpecificOverride(invoice_info, FoundAmounts(text))
    /\ pc' = "done"
    /\ UNCHANGED <<text, invoice_type, companies, credit_codes, amounts, batch_vars>>

\* process_invoices, lines 425-434
ListFiles ==
    /\ pc = "list"
    /\ pdf_files' = return_file_list_in_folder(folder)
    /\ IF pdf_files' = <<>>
       THEN pc' = "returned" /\ result' = "False" /\ file_idx' = file_idx
       ELSE pc' = "loop" /\ result' = result /\ file_idx' = 1
    /\ UNCHANGED <<text, invoice_type, invoice_info, scratch_vars, folder, workbook,
                   success_count, saved>>

\* process_invoices, lines 443-446: no text, the document is skipped
SkipFile ==
    /\ pc = "loop"
    /\ file_idx <= Len(pdf_files)
    /\ extract_text_from_pdf(pdf_files[file_idx]) = <<>>
    /\ text' = <<>>
    /\ file_idx' = file_idx + 1
    /\ UNCHANGED <<pc, invoice_type, invoice_info, scratch_vars, folder, pdf_files,
                   workbook, success_count, saved, result>>

\* process_invoices, lines 443-449: the text of the document is handed to
\* parse_invoice_info, which starts from an empty record (lines 67-79)
ReadFile ==
    /\ pc = "loop"
    /\ file_idx <= Len(pdf_files)
    /\ extract_text_from_pdf(pdf_files[file_idx]) # <<>>
    /\ text' = extract_text_from_pdf(pdf_files[file_idx])
    /\ invoice_type' = "none"
    /\ invoice_info' = EmptyInfo
    /\ pc' = "parse"
    /\ UNCHANGED <<scratch_vars, batch_vars>>

\* process_invoices, lines 451-459: the parsed record is added as a sheet
AddSheet ==
    /\ pc = "done"
    /\ file_idx > 0
    /\ workbook' = add_invoice_to_excel(workbook, invoice_info,
                                        SheetName(pdf_files[file_idx].name))
    /\ success_count' = success_count + 1
    /\ file_idx' = file_idx + 1
    /\ pc' = "loop"
    /\ UNCHANGED <<text, invoice_type, invoice_info, scratch_vars, folder, pdf_files,
                   saved, result>>

\* process_invoices, lines 466-473
Finish ==
    /\ pc = "loop"
    /\ file_idx > Len(pdf_files)
    /\ saved' = (success_count > 0)
    /\ result' = IF success_count > 0 THEN "True" ELSE "False"
    /\ pc' = "returned"
    /\ UNCHANGED <<text, invoice_type, invoice_info, scratch_vars, folder, pdf_files,
                   file_idx, workbook, success_count>>

----------------------------------------------------------------------------
(* Specifications. *)

\* process_invoices on a folder
Init ==
    /\ pc = "list" /\ text = <<>> /\ NoScratch
    /\ folder \in Folders(MaxFiles)
    /\ pdf_files = <<>> /\ file_idx = 0 /\ workbook = <<>>
    /\ success_count = 0 /\ saved = FALSE /\ result = "none"

Next ==
    \/ ListFiles \/ SkipFile \/ ReadFile
    \/ DetectType \/ DispatchShanghai \/ DispatchGeneric \/ ParseGeneric
    \/ AddSheet \/ Finish

Spec == Init /\ [][Next]_vars

\* detect_invoice_type on a text
InitDetect == pc = "parse" /\ text \in DetectTexts /\ NoScratch /\ NoBatch

NextDetect == DetectType

SpecDetect == InitDetect /\ [][NextDetect]_vars

\* parse_invoice_info on a text
InitParse == pc = "parse" /\ text \in NumberTexts /\ NoScratch /\ NoBatch

NextParse == DetectType \/ DispatchShanghai \/ DispatchGeneric \/ ParseGeneric

SpecParse == InitParse /\ [][NextParse]_vars

\* extract_invoice_date on a text and an empty record
InitDate == pc = "date" /\ text \in DateTexts /\ NoScratch /\ NoBatch

NextDate == ExtractInvoiceDate

SpecDate == InitDate /\ [][NextDate]_vars

\* extract_company_info on a text and an empty record
InitCompany == pc = "collect" /\ text \in CompanyTexts /\ NoScratch /\ NoBatch

NextCompany == CollectCandidates \/ ScanRoles \/ FallbackRoles \/ AssignCreditCodes

SpecCompany == InitCompany /\ [][NextCompany]_vars

\* extract_amount_info on a text and an empty record
InitAmount == pc = "amounts" /\ text \in AmountTexts /\ NoScratch /\ NoBatch

NextAmount == CollectAmounts \/ Classify \/ Override

SpecAmount == InitAmount /\ [][NextAmount]_vars

\* extract_other_fields on a text and an empty record
InitOther == pc = "other" /\ text \in OtherTexts /\ NoScratch /\ NoBatch

NextOther == ExtractOtherFields

SpecOther == InitOther /\ [][NextOther]_vars

----------------------------------------------------------------------------
(* Properties. *)

TextLines == split(text)

\* the lines i-before .. i+after around line i, clipped to the text
Around(i, before, after) ==
    {j \in 1..Len(TextLines) : i - before <= j /\ j <= i + after}

\* the candidate names of the text
Candidates == Range(CollectCompanies(text))

LinesWith(kws) == {i \in 1..Len(TextLines) : HasKeyword(kws, TextLines[i])}

LinesNaming(c) == {j \in 1..Len(TextLines) : Occurs(c, TextLines[j])}

\* C1: when exactly two candidate names A (first) and B (second) are
\* collected, a buyer-keyword line has A inside its window and no line has a
\* seller keyword, extract_company_info returns buyer_name = A and
\* seller_name = B.
C1_BuyerThenFallbackSeller ==
    pc = "done" =>
        LET cands == CollectCompanies(text)
        IN  (/\ Len(cands) = 2
             /\ LinesWith(SellerKeywords) = {}
             /\ \E i \in LinesWith(BuyerKeywords) :
                    LinesNaming(cands[1]) \cap Around(i, WindowBefore, WindowAfter - 1) # {})
            => /\ invoice_info.buyer_name = cands[1]
               /\ invoice_info.seller_name = cands[2]

InBandValues == {v \in Range(AmountPool(text)) : InBand(v)}

SetMin(S) == CHOOSE x \in S : \A y \in S : x <= y

\* C2 as stated: after extract_amount_info, tax_amount is the first pool
\* value, in the order of the text, that lies in [100, 1000], and is empty
\* when no pool value lies in the band.
C2_FirstInTextOrder ==
    pc = "done" =>
        LET band == SelectSeq(AmountPool(text), InBand)
        IN  invoice_info.tax_amount = IF band # <<>> THEN Format2(band[1]) ELSE <<>>

\* C2 as amended: tax_amount is the smallest pool value in [100, 1000]
\* (empty when there is none), unless the literal patterns match: with
\* ¥225.96 in the text it is 225.96, otherwise with two or more matches of
\* ¥3992.00 / ¥3766.04 it is the second smallest of these matches.
C2_SmallestInBand ==
    pc = "done" =>
        LET n3992 == CountLit(Lit3992, text)
            n3766 == CountLit(Lit3766, text)
        IN  invoice_info.tax_amount =
                IF CountLit(Lit225, text) > 0 THEN Tail(Lit225)
                ELSE IF n3992 + n3766 >= 2
                     THEN (IF n3766 >= 2 THEN Tail(Lit3766) ELSE Tail(Lit3992))
                ELSE IF InBandValues # {} THEN Format2(SetMin(InBandValues))
                ELSE <<>>

\* C2 witness: two band values stand in descending order in the text, no
\* literal pattern matches, and the smaller one became tax_amount
C2_Witness ==
    /\ pc = "done"
    /\ CountLit(Lit3992, text) + CountLit(Lit225, text) + CountLit(Lit3766, text) = 0
    /\ LET band == SelectSeq(AmountPool(text), InBand)
       IN  /\ Len(band) >= 2
           /\ band[1] > band[2]
           /\ invoice_info.tax_amount = Format2(band[2])

\* C3: after extract_amount_info, total_amount is the maximum of the amount
\* pool formatted with two decimals, and is empty when the pool is empty.
C3_TotalIsMax ==
    pc = "done" =>
        LET pool == AmountPool(text)
        IN  invoice_info.total_amount =
                IF pool # <<>> THEN Format2(SeqMax(pool)) ELSE <<>>

\* the sheets written to the output file
Output == IF saved THEN workbook ELSE <<>>

\* C4: the output of process_invoices holds one record per input document,
\* in input order; a document without text appears with an empty record.
C4_OneRecordPerDocument ==
    pc = "returned" =>
        /\ Len(Output) = Len(pdf_files)
        /\ \A k \in 1..Len(pdf_files) :
               k <= Len(Output) =>
                   /\ Output[k].title = SheetName(pdf_files[k].name)
                   /\ pdf_files[k].content = <<>> => Output[k].info = EmptyInfo

\* C5: detect_invoice_type returns the profile of the first rule that
\* matches: regional marker, else machine-serial and checksum markers
\* together, else standard marker, else generic; one of the two markers
\* alone never gives complex.
C5_TypePriority ==
    pc = "dispatch" =>
        LET sh == Occurs(MarkShanghai, text)
            mc == Occurs(MarkMachine, text)
            ck == Occurs(MarkChecksum, text)
            sd == Occurs(MarkStandard, text)
        IN  /\ sh => invoice_type = "shanghai"
            /\ ~sh /\ mc /\ ck => invoice_type = "complex"
            /\ ~sh /\ ~(mc /\ ck) /\ sd => invoice_type = "standard"
            /\ ~sh /\ ~(mc /\ ck) /\ ~sd => invoice_type = "generic"
            /\ (mc /\ ~ck) \/ (ck /\ ~mc) => invoice_type # "complex"

\* C5 witness: the regional marker wins over the machine-serial and checksum
\* markers present in the same text
C5_Witness ==
    /\ pc = "dispatch"
    /\ Occurs(MarkShanghai, text) /\ Occurs(MarkMachine, text) /\ Occurs(MarkChecksum, text)
    /\ invoice_type = "shanghai"

\* the positions where pattern k matches a number of 8 to 20 characters
ValidNumberHits(k) ==
    {p \in 1..Len(text) :
        LET m == NumberPatternAt(k, text, p)
        IN  m[1] > 0 /\ NumberLenOk(SubSeq(text, m[1], m[2]))}

NumberAt(k, p) ==
    LET m == NumberPatternAt(k, text, p) IN SubSeq(text, m[1], m[2])

C7_LabelledDateFirst ==
    pc = "done" =>
        \A p \in 1..Len(text) :
            LET m == LabelledDateAt(text, p)
            IN  (/\ m[1] > 0
                 /\ \A p2 \in 1..(p - 1) : LabelledDateAt(text, p2)[1] = 0
                 /\ \E q \in 1..(p - 1) :
                        /\ CJKDateAt(text, q) > 0
                        /\ SubSeq(text, q, CJKDateAt(text, q)) # SubSeq(text, m[1], m[2]))
                => invoice_info.issue_date = SubSeq(text, m[1], m[2])

\* C8: with no line that is a standalone run of 2 to 4 CJK characters
\* outside the exclusion list, extract_other_fields leaves issuer_name empty.
C8_NoNameGuessing ==
    pc = "done" =>
        ((\A i \in 1..Len(TextLines) : ~IsNameLine(TextLines[i]))
            => invoice_info.issuer_name = <<>>)

\* After the role scan: a role is filled exactly from the window of
\* `before` lines above to `after` lines below a keyword line.
\*  - a filled role names a candidate found in the window of a keyword line;
\*  - a candidate in the window of a keyword line, not taken by the other
\*    role, leaves the role filled.
WindowIs(before, after) ==
    LET b == invoice_info.buyer_name
        s == invoice_info.seller_name
    IN  /\ b # <<>> => \E i \in LinesWith(BuyerKeywords) :
                           LinesNaming(b) \cap Around(i, before, after) # {}
        /\ s # <<>> => \E i \in LinesWith(SellerKeywords) :
                           LinesNaming(s) \cap Around(i, before, after) # {}
        /\ \A i \in LinesWith(BuyerKeywords) : \A c \in Candidates :
               LinesNaming(c) \cap Around(i, before, after) # {} /\ c # s => b # <<>>
        /\ \A i \in LinesWith(SellerKeywords) : \A c \in Candidates :
               LinesNaming(c) \cap Around(i, before, after) # {} /\ c # b => s # <<>>

\* C9 as stated: the window of a keyword line at index i is the lines
\* i-3 .. i+5: a name only on line i+5 is assigned, a name only on line i+6
\* or i-4 is not.
C9_WindowFiveBelow == pc = "remaining" => WindowIs(WindowBefore, WindowAfter)

\* C9 as amended: the window of a keyword line at index i is the lines
\* i-3 .. i+4: a name only on line i+4 is assigned, a name only on line i+5
\* or i-4 is not.
C9_WindowFourBelow == pc = "remaining" => WindowIs(WindowBefore, WindowAfter - 1)

\* C9 witness: the only buyer-keyword line is line i, the buyer found by the
\* scan stands on line i+4 and nowhere else
C9_Witness ==
    /\ pc = "remaining"
    /\ invoice_info.buyer_name # <<>>
    /\ \E i \in 1..Len(TextLines) :
           /\ LinesWith(BuyerKeywords) = {i}
           /\ LinesNaming(invoice_info.buyer_name) = {i + WindowAfter - 1}

\* C10: buyer_name and seller_name are never the same non-empty string.
C10_DistinctRoles ==
    invoice_info.buyer_name = <<>> \/ invoice_info.buyer_name # invoice_info.seller_name

\* C10 witness: one candidate stands in the window of a buyer-keyword line
\* and of a seller-keyword line, and was given to one role only
C10_Witness ==
    /\ pc = "done"
    /\ \E c \in Candidates :
           /\ \E i \in LinesWith(BuyerKeywords) :
                  LinesNaming(c) \cap Around(i, WindowBefore, WindowAfter - 1) # {}
           /\ \E i \in LinesWith(SellerKeywords) :
                  LinesNaming(c) \cap Around(i, WindowBefore, WindowAfter - 1) # {}
           /\ c \in {invoice_info.buyer_name, invoice_info.seller_name}
           /\ invoice_info.buyer_name # invoice_info.seller_name

====
